---------------------------- MODULE Spec2Model ----------------------------
(***************************************************************************)
(* State-machine model of the voice pipeline of the repository:            *)
(*   - the voice orchestrator (components/VoiceInterface.tsx) together     *)
(*     with the recorder hook (hooks/useAudioRecorder.ts)        VoiceSpec *)
(*   - the live duplex session (LiveInterface, unnamed/part_000) LiveSpec  *)
(*   - floatTo16BitPCM and the inbound decode                    PcmSpec   *)
(*   - the thought-tag stripping before speech synthesis         StripSpec *)
(*   - the text chat (components/ChatInterface.tsx)              ChatSpec  *)
(*   - the reasoning rewrite of the transcript                 RewriteSpec *)
(* The specifications share one tuple of variables; each one leaves        *)
(* the variables of the other parts at their initial values.               *)
(***************************************************************************)
EXTENDS Integers, Sequences, FiniteSets, TLC

(***************************************************************************)
(* Bounds of the model.                                                    *)
(***************************************************************************)
MaxTurns == 2            \* accepted "turn complete" triggers in one run
MaxTicks == 2            \* clock steps of TickMs within one listening session
MaxPendingStarts == 1    \* handleStartListening calls suspended at once
MaxRecorders == 2        \* MediaRecorders that are not inactive, at once
MaxLoops == 2            \* VAD sampling loops followed at once
MaxRaises == 2           \* VAD raises counted since a reset of the VAD state
MaxVadStreams == 1       \* open analyser streams counted
MaxTextLen == 4          \* tokens in a completion text (StripSpec)
Resolution == 40         \* input samples are multiples of 1/Resolution (PcmSpec)
MaxConnects == 2         \* connect() calls in one run (LiveSpec)
MaxBuffers == 2          \* inbound audio buffers in one run (LiveSpec)
MaxClock == 2            \* steps of the playback clock (LiveSpec)
MaxPendingFrames == 1    \* microphone frames counted while a channel opens
MaxSubmits == 2          \* form submissions in one run (ChatSpec)
MaxChunks == 2           \* streamed chunks of one completion (ChatSpec)
MaxModelChanges == 2     \* changes of settings.model in one run (ChatSpec)
MaxTranscriptLen == 3    \* tokens in a transcript (RewriteSpec)

(***************************************************************************)
(* Program constants.                                                      *)
(***************************************************************************)
SILENCE_THRESHOLD == 15
SILENCE_DURATION == 1500

\* One clock step.  A step of exactly SILENCE_DURATION makes the strict
\* comparison of line 112 observable: one step of silence is not enough,
\* two are.
TickMs == SILENCE_DURATION

\* Date.now() is read at line 88 only; between two reads it has advanced
\* by no, one or two steps.
Elapsed == {0, TickMs, 2 * TickMs}

\* Mean magnitudes an analyser frame can show: below, at and above the
\* threshold.
Volumes == {0, SILENCE_THRESHOLD, SILENCE_THRESHOLD + 1}

\* Names for the listening sessions that are current or still have a
\* turn in flight; a name is used again once nothing refers to it.
SessionIds == 1..(MaxTurns + 2)

VARIABLES
  (* ---- VoiceInterface: React state ---- *)
  status,               \* 'idle' | 'listening' | 'processing' | 'speaking'
  isHandsFree,
  messages,             \* the turn list, a sequence of [role, turn]
  (* ---- VoiceInterface: refs ---- *)
  isProcessingRef,      \* the processing lock
  hasSpokenRef,
  silenceStartTimeRef,  \* 0 = unset
  lastSpeechTimeRef,
  (* ---- useAudioRecorder ---- *)
  mediaRecorderRef,     \* 0 = null, else the recorder it refers to
  recorders,            \* the MediaRecorders, by identity
  (* ---- environment and control ---- *)
  now,                  \* Date.now() as last read (line 88)
  loops,                \* closures of the running VAD sampling loops
  starts,               \* suspended handleStartListening calls
  turns,                \* suspended handleStopAndProcess calls
  nTurns,               \* accepted triggers so far
  session,              \* the listening session begun last (0: none yet)
  (* ---- observation (history) ---- *)
  clips,                \* per session: clips stopRecording resolved
  sttCalls,             \* per session: calls of transcribeAudio
  obs                   \* flags recording what has happened since a point

voiceVars == <<status, isHandsFree, messages, isProcessingRef, hasSpokenRef,
               silenceStartTimeRef, lastSpeechTimeRef, mediaRecorderRef,
               recorders, now, loops, starts, turns, nTurns, session,
               clips, sttCalls, obs>>

VARIABLES
  (* ---- thought-tag stripping, VoiceInterface.tsx lines 265-277 ---- *)
  aiResponseText,       \* what getChatCompletion returned, a token sequence
  speechText,           \* the text computed at line 272
  stripPc,              \* "idle" | "completed" | "synthesizing" | "skipped"
  (* ---- PCM conversion, part_000 lines 158-166 and 317-324 ---- *)
  sample,               \* the input sample, as a fraction [num, den]
  pcm16,                \* the Int16Array element written at line 163
  float32,              \* the decoded sample (line 323), as a fraction
  pcmPc                 \* "idle" | "captured" | "encoded" | "decoded"

VARIABLES
  (* ---- LiveInterface (part_000): React state ---- *)
  isConnected,
  isTalking,
  error,                \* "none" (null) or the message shown
  (* ---- LiveInterface: refs; 0 = null, k = the object made by call k ---- *)
  inputContextRef,
  streamRef,
  sourceRef,
  processorRef,
  sessionRef,
  nextStartTimeRef,
  sourcesRef,           \* the playback sources scheduled and not ended
  (* ---- environment and control ---- *)
  hasApiKey,            \* process.env.API_KEY is set
  currentTime,          \* audioContextRef.current.currentTime
  calls,                \* per connect() call: "none" | "gum" | "done"
  sessions,             \* per call: the channel it opened
  resources,            \* per object made: "none" | "open" | "released" | "twice"
  stopped,              \* sources stopped by disconnect, onended still to come
  nBuffers,             \* inbound buffers so far
  (* ---- observation (history) ---- *)
  sched,                \* per connection: its last two scheduled buffers
  disconnectsInRow      \* disconnect() calls since any other operation

liveVars == <<isConnected, isTalking, error, inputContextRef, streamRef,
              sourceRef, processorRef, sessionRef, nextStartTimeRef,
              sourcesRef, hasApiKey, currentTime, calls, sessions, resources,
              stopped, nBuffers, sched, disconnectsInRow>>

stripVars == <<aiResponseText, speechText, stripPc>>

pcmVars == <<sample, pcm16, float32, pcmPc>>

VARIABLES
  (* ---- ChatInterface.tsx: React state ---- *)
  chatMessages,         \* the messages state of ChatInterface (line 35)
  inputValue,           \* "" or the text typed
  isLoading,
  (* ---- environment and control ---- *)
  settings,             \* the settings prop: [apiKey, model]
  stream,               \* the handleSubmit call awaiting streamChatCompletion
  nSubmits,             \* submissions so far
  nModelChanges         \* changes of settings.model so far

chatVars == <<chatMessages, inputValue, isLoading, settings, stream, nSubmits,
              nModelChanges>>

VARIABLES
  (* ---- reasoning rewrite, VoiceInterface.tsx lines 242-263 ---- *)
  turnTranscript,       \* what transcribeAudio returned, a token sequence
  model,                \* settings.model of the turn
  cleanContent,         \* the user text sent to getChatCompletion
  isReasoning,          \* the isReasoning option sent with it
  rewritePc             \* "idle" | "transcribed" | "requested"

rewriteVars == <<turnTranscript, model, cleanContent, isReasoning, rewritePc>>

VARIABLES
  (* ---- the settings prop of VoiceInterface (App.tsx lines 19-51) ---- *)
  voiceApiKey           \* settings.apiKey is not empty

keyVars == <<voiceApiKey>>

vars == <<voiceVars, liveVars, stripVars, pcmVars, chatVars, rewriteVars, keyVars>>

\* a step of one part leaves the other parts as they are
VoiceOnly == UNCHANGED <<liveVars, stripVars, pcmVars, chatVars, rewriteVars, keyVars>>
LiveOnly == UNCHANGED <<voiceVars, stripVars, pcmVars, chatVars, rewriteVars, keyVars>>
StripOnly == UNCHANGED <<voiceVars, liveVars, pcmVars, chatVars, rewriteVars, keyVars>>
PcmOnly == UNCHANGED <<voiceVars, liveVars, stripVars, chatVars, rewriteVars, keyVars>>
ChatOnly == UNCHANGED <<voiceVars, liveVars, stripVars, pcmVars, rewriteVars, keyVars>>
RewriteOnly == UNCHANGED <<voiceVars, liveVars, stripVars, pcmVars, chatVars, keyVars>>
KeyOnly == UNCHANGED <<voiceVars, liveVars, stripVars, pcmVars, chatVars, rewriteVars>>

---------------------------------------------------------------------------
(***************************************************************************)
(* VoiceInterface.tsx + useAudioRecorder.ts                                *)
(***************************************************************************)

Range(f) == {f[i] : i \in DOMAIN f}

SystemTurn == [role |-> "system", turn |-> 0]
UserTurn(t) == [role |-> "user", turn |-> t]
AssistantTurn(t) == [role |-> "assistant", turn |-> t]

\* loudSinceStart: a frame above the threshold was analysed since the
\*   listening session began
\* raises: times the VAD has raised "turn complete" (line 114) since the
\*   VAD state was reset (lines 199-201), counted up to MaxRaises
\* failedQuiet: a turn failed with nothing else in flight, and the user has
\*   not asked to start listening since
\* vadStreams: microphone streams connectStreamToAnalyser has opened
\*   (line 66); the stream it returns is dropped at line 193 and no code
\*   stops its tracks; counted up to MaxVadStreams
\* quietSince: the time of the first frame at or below the threshold
\*   analysed after the last frame above it (or after the session began);
\*   0 if there was none
NoObs == [loudSinceStart |-> FALSE, raises |-> 0, failedQuiet |-> FALSE,
          vadStreams |-> 0, quietSince |-> 0]

\* A MediaRecorder: "recording", "stopping" (stop() was called, the stop
\* event has not fired yet) or "inactive" (the stop event has fired and
\* the tracks of its stream are stopped, line 51); "none" is an identity
\* not in use.  onstop names the turn whose stopRecording promise the
\* stop event will resolve (0: none).
NoRecorder == [state |-> "none", onstop |-> 0]
NewRecorder == [state |-> "recording", onstop |-> 0]
\* (variant: a recorder that goes on recording after its stop event)
StoppedStillRecording == [state |-> "recording", onstop |-> 0]

Stopped == [state |-> "inactive", onstop |-> 0]

VoiceInit ==
  /\ status = "idle"
  /\ isHandsFree = FALSE
  /\ messages = <<SystemTurn>>
  /\ isProcessingRef = FALSE
  /\ hasSpokenRef = FALSE
  /\ silenceStartTimeRef = 0
  /\ lastSpeechTimeRef = 0
  /\ mediaRecorderRef = 0
  /\ recorders = [r \in 1..MaxRecorders |-> NoRecorder]
  /\ now = TickMs
  /\ loops = <<>>
  /\ starts = [vad |-> 0, rec |-> 0]
  /\ turns = {}
  /\ nTurns = 0
  /\ session = 0
  /\ clips = [s \in SessionIds |-> 0]
  /\ sttCalls = [s \in SessionIds |-> 0]
  /\ obs = NoObs

\* The closure of a render: what the handlers and the VAD loop created in
\* that render read as status, isHandsFree and messages.
Closure(st, hf, msgs) ==
  [status |-> st, isHandsFree |-> hf, messages |-> msgs, apiKey |-> voiceApiKey]

CurrentRender == Closure(status, isHandsFree, messages)

\* useEffect(startVADLoop): a render in which status or isHandsFree changed
\* starts one more sampling loop; no loop is ever cancelled.  A loop whose
\* captured values fail the test of line 86 returns there on every frame,
\* so only the loops that can pass it are kept, the one started last at
\* the end, and of those the MaxLoops started last are followed.
Newest(ls) ==
  IF Len(ls) > MaxLoops THEN SubSeq(ls, Len(ls) - MaxLoops + 1, Len(ls)) ELSE ls

LoopsAfterRender(st, hf, msgs) ==
  IF <<st, hf>> # <<status, isHandsFree>> /\ hf /\ st = "listening"
  THEN Newest(Append(SelectSeq(loops, LAMBDA l : l # Closure(st, hf, msgs)),
                     Closure(st, hf, msgs)))
  ELSE loops

\* The per-session observations are kept for the sessions something still
\* refers to: the current one and those with a turn in flight.
Live(count) ==
  [s \in SessionIds |->
     IF s = session' \/ \E t \in turns' : t.sess = s THEN count[s] ELSE 0]

KeepCounts ==
  /\ clips' = Live(clips)
  /\ sttCalls' = Live(sttCalls)

---------------------------------------------------------------------------
(* Thought markup.  A text is a sequence of tokens: "O" is the literal     *)
(* <think>, "C" the literal </think>, "W" a whitespace character and "T"   *)
(* any other character.                                                    *)

SeqMin(S) == CHOOSE x \in S : \A y \in S : x <= y

\* aiResponseText.replace(/<think>[\s\S]*?<\/think>/g, ''): the leftmost
\* <think> that has a </think> after it is removed together with everything
\* up to the first such </think>; the scan goes on behind the match.
RECURSIVE StripThink(_)
StripThink(s) ==
  LET opens == {i \in 1..Len(s) : s[i] = "O" /\ \E j \in (i+1)..Len(s) : s[j] = "C"}
  IN IF opens = {} THEN s
     ELSE LET i == SeqMin(opens)
              j == SeqMin({k \in (i+1)..Len(s) : s[k] = "C"})
          IN SubSeq(s, 1, i-1) \o StripThink(SubSeq(s, j+1, Len(s)))

\* String.prototype.trim
Trim(s) ==
  LET keep == {i \in 1..Len(s) : s[i] # "W"}
  IN IF keep = {} THEN <<>>
     ELSE SubSeq(s, SeqMin(keep), CHOOSE i \in keep : \A k \in keep : k <= i)

\* line 272: the text handed to generateSpeech
SpeechText(text) == Trim(StripThink(text))

\* Completion texts the provider returns in the orchestrator model: plain
\* text, a thought followed by text, a thought only, the empty string.
CompletionTexts == {<<"T">>, <<"O", "T", "C", "T">>, <<"O", "T", "C">>, <<>>}

---------------------------------------------------------------------------
(* handleStartListening, lines 181-205.  The call suspends at the          *)
(* getUserMedia of connectStreamToAnalyser (and at the resume() before it, *)
(* which changes nothing), then at the getUserMedia of startRecording.     *)
(* The test of line 182 reads settings.apiKey of the render that made the  *)
(* handler.                                                                *)

PendingStarts == starts.vad + starts.rec

\* the synchronous part of the call: up to the first await
SpawnStart == [starts EXCEPT !.vad = @ + 1]

\* lines 66-68: one more stream is open and feeds the analyser
StreamsAfterConnect(n) == IF n < MaxVadStreams THEN n + 1 ELSE MaxVadStreams

\* connectStreamToAnalyser settles; a failure is caught (line 70) and the
\* call goes on to startRecording either way.
ConnectStreamSettles(ok) ==
  /\ VoiceOnly
  /\ starts.vad > 0
  /\ starts' = [vad |-> starts.vad - 1, rec |-> starts.rec + 1]
  /\ obs' = IF ok THEN [obs EXCEPT !.vadStreams = StreamsAfterConnect(@)] ELSE obs
  /\ UNCHANGED <<status, isHandsFree, messages, isProcessingRef, hasSpokenRef,
                 silenceStartTimeRef, lastSpeechTimeRef, mediaRecorderRef,
                 recorders, now, loops, turns, nTurns, session>>
  /\ KeepCounts

FreeRecorders == {r \in 1..MaxRecorders : recorders[r].state = "none"}

\* A recorder whose stop event has fired takes no further part once
\* mediaRecorderRef refers to another one; its identity is free again.
Forget(recs, ref) ==
  [r \in 1..MaxRecorders |->
     IF recs[r].state = "inactive" /\ r # ref THEN NoRecorder ELSE recs[r]]

\* useAudioRecorder.startRecording, lines 9-33, from the point where
\* getUserMedia settles: on success a recorder is created, stored in
\* mediaRecorderRef and started; a failure is caught and logged.
StartRecordingRef(ok) ==
  IF ok THEN SeqMin(FreeRecorders) ELSE mediaRecorderRef

StartRecordingRecorders(ok) ==
  IF ok
  THEN Forget([recorders EXCEPT ![SeqMin(FreeRecorders)] = NewRecorder],
              SeqMin(FreeRecorders))
  ELSE recorders

FreshSession ==
  SeqMin({s \in SessionIds : s # session /\ \A t \in turns : t.sess # s})

\* (variant of lines 199-201: the VAD state is left as it is)
VadStateKept ==
  [hasSpoken |-> hasSpokenRef, silenceStart |-> silenceStartTimeRef,
   lastSpeech |-> lastSpeechTimeRef]

\* lines 199-201: the VAD state handleStartListening writes
VadStateReset ==
  [hasSpoken |-> FALSE, silenceStart |-> 0, lastSpeech |-> 0]

\* lines 196-204: startRecording settles, the VAD state and the lock are
\* reset and the status becomes listening, all in one task.  No timestamp
\* is held after the reset, so the clock of the model starts again.
StartRecordingSettles(ok) ==
  /\ VoiceOnly
  /\ starts.rec > 0
  /\ ok => FreeRecorders # {}
  /\ starts' = [starts EXCEPT !.rec = @ - 1]
  /\ recorders' = StartRecordingRecorders(ok)
  /\ mediaRecorderRef' = StartRecordingRef(ok)
  /\ hasSpokenRef' = VadStateReset.hasSpoken
  /\ silenceStartTimeRef' = VadStateReset.silenceStart
  /\ lastSpeechTimeRef' = VadStateReset.lastSpeech
  /\ isProcessingRef' = FALSE
  /\ status' = "listening"
  /\ loops' = LoopsAfterRender("listening", isHandsFree, messages)
  /\ session' = FreshSession
  /\ now' = TickMs
  /\ obs' = [obs EXCEPT !.loudSinceStart = FALSE, !.raises = 0, !.quietSince = 0]
  /\ UNCHANGED <<isHandsFree, messages, turns, nTurns>>
  /\ clips' = Live([clips EXCEPT ![FreshSession] = 0])
  /\ sttCalls' = Live([sttCalls EXCEPT ![FreshSession] = 0])

---------------------------------------------------------------------------
(* handleStopAndProcess, lines 207-221, with useAudioRecorder.stopRecording *)
(* (lines 35-61) up to its suspension.                                     *)

\* line 208, read in the closure c of the render that created the handler
HandleStopGuard(c) == c.status = "listening" /\ ~isProcessingRef

\* A suspended turn: pc is the await it is suspended at, hf and hist are
\* isHandsFree and messages of its closure, sess the session it was
\* accepted in, called the provider calls it has made, transcript what
\* transcribeAudio returned to it and reply what getChatCompletion did
\* ("none": nothing yet).
NewTurn(id, c) == [id |-> id, pc |-> "stopping", hf |-> c.isHandsFree,
                   hist |-> c.messages, key |-> c.apiKey, sess |-> session,
                   called |-> <<>>, transcript |-> "none", reply |-> "none"]

\* A turn suspended at a stopRecording promise that nothing will settle
\* any more (onstop of its recorder was replaced) takes no further step;
\* it is dropped from turns.
StillWaiting(r) == {t \in turns : ~(t.pc = "stopping" /\ t.id = recorders[r].onstop)}

\* stopRecording on recorder r for turn id: what becomes of the recorder
\* (lines 43 and 59) ...
StopRecordingRecorders(r, id, throws) ==
  IF recorders[r].state = "recording"
  THEN [recorders EXCEPT ![r] = [state |-> "stopping", onstop |-> id]]
  ELSE IF recorders[r].state = "stopping"
       THEN [recorders EXCEPT ![r].onstop = IF throws THEN 0 ELSE id]
       ELSE recorders

\* ... and whether the promise it returns can still be resolved
StopRecordingPending(r, throws) ==
  \/ recorders[r].state = "recording"
  \/ recorders[r].state = "stopping" /\ ~throws

\* throws: stop() on a recorder that is not recording either returns
\* without effect (the current MediaRecorder standard) or throws
\* InvalidStateError (older engines), which rejects the promise and ends
\* handleStopAndProcess with that rejection.  onstop is replaced before
\* stop() is called in both cases.
HandleStopAndProcess(c) ==
  IF ~HandleStopGuard(c)
  THEN UNCHANGED <<status, isProcessingRef, loops, recorders, turns, nTurns>>
  ELSE IF mediaRecorderRef = 0
  THEN \* stopRecording resolves null (line 39): lines 218-219
       /\ status' = "idle"
       /\ isProcessingRef' = FALSE
       /\ loops' = LoopsAfterRender("idle", isHandsFree, messages)
       /\ UNCHANGED <<recorders, turns, nTurns>>
  ELSE /\ nTurns < MaxTurns
       /\ isProcessingRef' = TRUE
       /\ status' = "processing"
       /\ loops' = LoopsAfterRender("processing", isHandsFree, messages)
       /\ nTurns' = nTurns + 1
       /\ \E throws \in BOOLEAN :
            LET r == mediaRecorderRef
                id == nTurns + 1
            IN /\ recorders[r].state = "recording" => ~throws
               /\ recorders' = StopRecordingRecorders(r, id, throws)
               /\ turns' = IF StopRecordingPending(r, throws)
                           THEN StillWaiting(r) \cup {NewTurn(id, c)}
                           ELSE StillWaiting(r)

\* the stop event of recorder r (lines 43-57): the tracks are stopped and
\* the promise of the stopRecording call that set onstop last is resolved
\* with the clip; its caller goes on to processConversationTurn, which
\* calls transcribeAudio at once (lines 215-216, 226).
ClipReceiver(r) == {t \in turns : t.pc = "stopping" /\ t.id = recorders[r].onstop}

ClipDelivered(t) == [clips EXCEPT ![t.sess] = @ + 1]

\* (variant of line 226 without the await: the completion is requested
\* while the transcription is still running)
TranscribeNotAwaited(t) ==
  [t EXCEPT !.pc = "completing", !.called = <<"stt", "llm">>]

\* line 226: transcribeAudio is called and awaited
TranscribeAwaited(t) == [t EXCEPT !.pc = "transcribing", !.called = <<"stt">>]

TranscribeCalled(t) == [sttCalls EXCEPT ![t.sess] = @ + 1]

StopEvent(r) ==
  /\ VoiceOnly
  /\ recorders[r].state = "stopping"
  /\ recorders' = Forget([recorders EXCEPT ![r] = Stopped],
                         mediaRecorderRef)
  /\ UNCHANGED <<status, isHandsFree, messages, isProcessingRef, hasSpokenRef,
                 silenceStartTimeRef, lastSpeechTimeRef, mediaRecorderRef,
                 now, loops, starts, nTurns, session, obs>>
  /\ IF ClipReceiver(r) = {}
     THEN turns' = turns /\ KeepCounts
     ELSE LET t == CHOOSE x \in ClipReceiver(r) : TRUE
          IN /\ turns' = (turns \ {t}) \cup {TranscribeAwaited(t)}
             /\ clips' = Live(ClipDelivered(t))
             /\ sttCalls' = Live(TranscribeCalled(t))

---------------------------------------------------------------------------
(* processConversationTurn (lines 223-292) and playAudioResponse (lines    *)
(* 294-326).  A turn t reads isHandsFree and messages from the closure of  *)
(* the render whose handler accepted the trigger (t.hf, t.hist).           *)

Advance(t, pc) == (turns \ {t}) \cup {[t EXCEPT !.pc = pc]}

\* the catch blocks, lines 287-291 and 321-325
CatchFailure(t) ==
  /\ status' = "idle"
  /\ isProcessingRef' = FALSE
  /\ loops' = LoopsAfterRender("idle", isHandsFree, messages)
  /\ turns' = turns \ {t}
  /\ obs' = [obs EXCEPT !.failedQuiet = (PendingStarts = 0 /\ turns \ {t} = {})]
  /\ UNCHANGED <<isHandsFree, messages, hasSpokenRef, silenceStartTimeRef,
                 lastSpeechTimeRef, mediaRecorderRef, recorders, now, starts,
                 nTurns, session>>

\* line 182: !settings.apiKey, with the settings of the render that made
\* the handler
KeyMissingInVoice(key) == ~key

\* groqService.ts getClient, lines 4-10: with an empty key the provider
\* call throws before any request is made, so it can only fail
FailsBeforeRequest(t) == ~t.key

\* handleStartListening() called, not awaited, from inside a turn
\* (lines 232, 281, 314): the turn ends, status and lock stay as they are
\* until the call completes.
RestartListening(t) ==
  /\ IF KeyMissingInVoice(t.key)
     THEN starts' = starts                     \* lines 182-185: alert, return
     ELSE PendingStarts < MaxPendingStarts /\ starts' = SpawnStart
  /\ turns' = turns \ {t}
  /\ UNCHANGED <<status, isHandsFree, isProcessingRef, hasSpokenRef,
                 silenceStartTimeRef, lastSpeechTimeRef, mediaRecorderRef,
                 recorders, now, loops, nTurns, session, obs>>

\* lines 235-237, 316-317
BackToIdle(t) ==
  /\ status' = "idle"
  /\ isProcessingRef' = FALSE
  /\ loops' = LoopsAfterRender("idle", isHandsFree, messages)
  /\ turns' = turns \ {t}
  /\ UNCHANGED <<isHandsFree, hasSpokenRef, silenceStartTimeRef,
                 lastSpeechTimeRef, mediaRecorderRef, recorders, now,
                 starts, nTurns, session, obs>>

\* lines 240-263: the user turn is appended to the history the closure
\* holds and the completion is requested
RequestCompletion(t, transcript) ==
  LET newHistory == Append(t.hist, UserTurn(t.id))
  IN /\ messages' = newHistory
     /\ turns' = (turns \ {t}) \cup
                   {[t EXCEPT !.pc = "completing", !.hist = newHistory,
                              !.called = Append(@, "llm"),
                              !.transcript = transcript]}
     /\ UNCHANGED <<status, isHandsFree, isProcessingRef, hasSpokenRef,
                    silenceStartTimeRef, lastSpeechTimeRef, mediaRecorderRef,
                    recorders, now, loops, starts, nTurns, session, obs>>

\* line 228: !transcript.trim()
IsBlank(transcript) == transcript = "empty"

\* lines 226-238: transcribeAudio has returned transcript, "empty" ('' or
\* whitespace only) or "text"
TranscriptReturned(t, transcript) ==
  IF IsBlank(transcript)
  THEN /\ messages' = messages
       /\ IF t.hf THEN RestartListening(t) ELSE BackToIdle(t)
  ELSE RequestCompletion(t, transcript)

\* transcribeAudio settles: it throws ("fail") or returns
TranscribeSettles(t, transcript) ==
  /\ VoiceOnly
  /\ t \in turns /\ t.pc = "transcribing"
  /\ FailsBeforeRequest(t) => transcript = "fail"
  /\ IF transcript = "fail"
     THEN CatchFailure(t)
     ELSE TranscriptReturned(t, transcript)
  /\ KeepCounts

\* getChatCompletion settles (lines 265-285): the assistant turn is
\* appended; a non-empty speech text goes to generateSpeech, an empty one
\* restarts listening (hands-free closure) or sets the status to idle.
CompletionSettles(t, ok, text) ==
  /\ VoiceOnly
  /\ t \in turns /\ t.pc = "completing"
  /\ FailsBeforeRequest(t) => ~ok
  /\ IF ~ok
     THEN CatchFailure(t)
     ELSE LET updatedHistory == Append(t.hist, AssistantTurn(t.id))
          IN /\ messages' = updatedHistory
             /\ IF SpeechText(text) # <<>>
                THEN /\ turns' = (turns \ {t}) \cup
                                   {[t EXCEPT !.pc = "synthesizing", !.hist = updatedHistory,
                                              !.called = Append(@, "tts"),
                                              !.reply = "text"]}
                     /\ UNCHANGED <<status, isHandsFree, isProcessingRef, hasSpokenRef,
                                    silenceStartTimeRef, lastSpeechTimeRef, mediaRecorderRef,
                                    recorders, now, loops, starts, nTurns, session, obs>>
                ELSE IF t.hf
                     THEN RestartListening(t)
                     ELSE /\ status' = "idle"            \* line 283: the lock is left set
                          /\ loops' = LoopsAfterRender("idle", isHandsFree, updatedHistory)
                          /\ turns' = turns \ {t}
                          /\ UNCHANGED <<isHandsFree, isProcessingRef, hasSpokenRef,
                                         silenceStartTimeRef, lastSpeechTimeRef,
                                         mediaRecorderRef, recorders, now, starts,
                                         nTurns, session, obs>>
  /\ KeepCounts

\* generateSpeech settles; on success playAudioResponse sets the status
\* to speaking and suspends at decodeAudioData (lines 298-299).
SynthesisSettles(t, ok) ==
  /\ VoiceOnly
  /\ t \in turns /\ t.pc = "synthesizing"
  /\ FailsBeforeRequest(t) => ~ok
  /\ IF ~ok
     THEN CatchFailure(t)
     ELSE /\ status' = "speaking"
          /\ loops' = LoopsAfterRender("speaking", isHandsFree, messages)
          /\ turns' = Advance(t, "decoding")
          /\ UNCHANGED <<isHandsFree, messages, isProcessingRef, hasSpokenRef,
                         silenceStartTimeRef, lastSpeechTimeRef, mediaRecorderRef,
                         recorders, now, starts, nTurns, session, obs>>
  /\ KeepCounts

\* decodeAudioData settles; on success the source is started (line 320).
DecodeSettles(t, ok) ==
  /\ VoiceOnly
  /\ t \in turns /\ t.pc = "decoding"
  /\ IF ~ok
     THEN CatchFailure(t)
     ELSE /\ turns' = Advance(t, "playing")
          /\ UNCHANGED <<status, isHandsFree, messages, isProcessingRef, hasSpokenRef,
                         silenceStartTimeRef, lastSpeechTimeRef, mediaRecorderRef,
                         recorders, now, loops, starts, nTurns, session, obs>>
  /\ KeepCounts

\* source.onended, lines 311-319
PlaybackEnded(t) ==
  /\ VoiceOnly
  /\ t \in turns /\ t.pc = "playing"
  /\ messages' = messages
  /\ IF t.hf THEN RestartListening(t) ELSE BackToIdle(t)
  /\ KeepCounts

---------------------------------------------------------------------------
(* The VAD sampling loop, lines 76-126, and the user's controls.           *)

\* line 86, read in the closure l of the render that started the loop
CheckSilenceGuard(l) == l.isHandsFree /\ l.status = "listening" /\ ~isProcessingRef

\* (variant of line 96: a frame at the threshold counts as speech)
IsSpeechAtThreshold(avgVolume) == avgVolume >= SILENCE_THRESHOLD

\* line 96
IsSpeech(avgVolume) == avgVolume > SILENCE_THRESHOLD

\* what the frame showed, whatever line 96 made of it
IsLoud(avgVolume) == avgVolume > SILENCE_THRESHOLD

Counted(n) == IF n > MaxRaises THEN MaxRaises ELSE n

\* when the quiet stretch the frame analysed at time belongs to began
QuietSince(avgVolume, time) ==
  IF IsLoud(avgVolume) THEN 0
  ELSE IF obs.quietSince = 0 THEN time ELSE obs.quietSince

\* (variant of line 99: a frame above the threshold leaves the timer)
TimerKeptOnSpeech(time) == silenceStartTimeRef

\* line 99: a frame above the threshold, analysed at time, clears the timer
TimerOnSpeech(time) == 0

\* line 107: the silence timer is started if it is not running
SilenceStart(time) ==
  IF silenceStartTimeRef = 0 THEN time ELSE silenceStartTimeRef

\* lines 109 and 112
SilenceTimedOut(time) ==
  time - SilenceStart(time) > SILENCE_DURATION

\* one animation frame in which loop l passes line 86, elapsed after the
\* frame analysed before, with mean magnitude avgVolume (draw, lines
\* 120-125; checkSilence, lines 85-118)
Frame(l, avgVolume, elapsed) ==
  /\ VoiceOnly
  /\ l \in Range(loops)
  /\ CheckSilenceGuard(l)
  /\ now + elapsed <= TickMs * (MaxTicks + 1)
  /\ now' = now + elapsed
  /\ UNCHANGED <<isHandsFree, messages, mediaRecorderRef, starts, session>>
  /\ IF IsSpeech(avgVolume)
     THEN /\ lastSpeechTimeRef' = now'
          /\ silenceStartTimeRef' = TimerOnSpeech(now')
          /\ hasSpokenRef' = TRUE
          /\ obs' = [obs EXCEPT !.loudSinceStart = @ \/ IsLoud(avgVolume),
                                 !.quietSince = QuietSince(avgVolume, now')]
          /\ UNCHANGED <<status, isProcessingRef, recorders, loops, turns, nTurns>>
     ELSE /\ UNCHANGED <<lastSpeechTimeRef, hasSpokenRef>>
          /\ IF hasSpokenRef
             THEN /\ silenceStartTimeRef' = SilenceStart(now')
                  /\ IF SilenceTimedOut(now')
                     THEN /\ HandleStopAndProcess(l)
                          /\ obs' = [obs EXCEPT !.loudSinceStart = @ \/ IsLoud(avgVolume),
                                                 !.quietSince = QuietSince(avgVolume, now'),
                                                 !.raises = Counted(@ + 1)]
                     ELSE /\ obs' = [obs EXCEPT !.loudSinceStart = @ \/ IsLoud(avgVolume),
                                                 !.quietSince = QuietSince(avgVolume, now')]
                          /\ UNCHANGED <<status, isProcessingRef, recorders, loops,
                                         turns, nTurns>>
             ELSE /\ obs' = [obs EXCEPT !.loudSinceStart = @ \/ IsLoud(avgVolume),
                                         !.quietSince = QuietSince(avgVolume, now')]
                  /\ UNCHANGED <<silenceStartTimeRef, status, isProcessingRef, recorders,
                                 loops, turns, nTurns>>
  /\ KeepCounts

\* the main control button, lines 440-442: it stops while listening,
\* starts otherwise, and is disabled while processing
ClickStop ==
  /\ VoiceOnly
  /\ status = "listening"
  /\ HandleStopAndProcess(CurrentRender)
  /\ UNCHANGED <<isHandsFree, messages, hasSpokenRef, silenceStartTimeRef,
                 lastSpeechTimeRef, mediaRecorderRef, now, starts, session, obs>>
  /\ KeepCounts

ClickStart ==
  /\ VoiceOnly
  /\ status \in {"idle", "speaking"}
  /\ IF KeyMissingInVoice(CurrentRender.apiKey)
     THEN UNCHANGED voiceVars                  \* lines 182-185: alert, return
     ELSE /\ PendingStarts < MaxPendingStarts
          /\ starts' = SpawnStart
          /\ obs' = [obs EXCEPT !.failedQuiet = FALSE]
          /\ UNCHANGED <<status, isHandsFree, messages, isProcessingRef, hasSpokenRef,
                         silenceStartTimeRef, lastSpeechTimeRef, mediaRecorderRef,
                         recorders, now, loops, turns, nTurns, session>>
          /\ KeepCounts

\* toggleHandsFree, lines 328-332
ToggleHandsFree ==
  /\ VoiceOnly
  /\ isHandsFree' = ~isHandsFree
  /\ loops' = LoopsAfterRender(status, ~isHandsFree, messages)
  /\ UNCHANGED <<status, messages, isProcessingRef, hasSpokenRef,
                 silenceStartTimeRef, lastSpeechTimeRef, mediaRecorderRef,
                 recorders, now, starts, turns, nTurns, session, obs>>
  /\ KeepCounts

\* the key field of the settings dialog (part_000 lines 13-14, 34) while
\* the voice window is open: the key is cleared or entered.  The new render
\* starts no loop (the dependencies of line 173 do not include the key).
ChangeVoiceApiKey ==
  /\ KeyOnly
  /\ voiceApiKey' = ~voiceApiKey

VoiceNext ==
  \/ ClickStart
  \/ ClickStop
  \/ ToggleHandsFree
  \/ \E ok \in BOOLEAN : ConnectStreamSettles(ok)
  \/ \E ok \in BOOLEAN : StartRecordingSettles(ok)
  \/ \E l \in Range(loops), v \in Volumes, d \in Elapsed : Frame(l, v, d)
  \/ \E r \in 1..MaxRecorders : StopEvent(r)
  \/ \E t \in turns, x \in {"fail", "empty", "text"} : TranscribeSettles(t, x)
  \/ \E t \in turns, ok \in BOOLEAN, txt \in CompletionTexts : CompletionSettles(t, ok, txt)
  \/ \E t \in turns, ok \in BOOLEAN : SynthesisSettles(t, ok)
  \/ \E t \in turns, ok \in BOOLEAN : DecodeSettles(t, ok)
  \/ \E t \in turns : PlaybackEnded(t)

---------------------------------------------------------------------------
(***************************************************************************)
(* The speech text of a completion, VoiceInterface.tsx lines 265-277, for  *)
(* every completion text of up to MaxTextLen tokens.                       *)
(***************************************************************************)

Tokens == {"O", "C", "T", "W"}

Texts == UNION {[1..n -> Tokens] : n \in 0..MaxTextLen}

StripInit ==
  /\ aiResponseText = <<>>
  /\ speechText = <<>>
  /\ stripPc = "idle"

\* line 258: getChatCompletion returns text
CompletionReturns(text) ==
  /\ StripOnly
  /\ stripPc = "idle"
  /\ aiResponseText' = text
  /\ stripPc' = "completed"
  /\ UNCHANGED speechText

\* lines 272-277: speechText is computed; generateSpeech is called with it
\* if it is not empty
StripForSpeech ==
  /\ StripOnly
  /\ stripPc = "completed"
  /\ speechText' = SpeechText(aiResponseText)
  /\ stripPc' = IF speechText' # <<>> THEN "synthesizing" ELSE "skipped"
  /\ UNCHANGED aiResponseText

\* the turn ends; the next completion is a new call
TurnEnds ==
  /\ StripOnly
  /\ stripPc \in {"synthesizing", "skipped"}
  /\ aiResponseText' = <<>>
  /\ speechText' = <<>>
  /\ stripPc' = "idle"

StripNext ==
  \/ \E text \in Texts : CompletionReturns(text)
  \/ StripForSpeech
  \/ TurnEnds

---------------------------------------------------------------------------
(***************************************************************************)
(* floatTo16BitPCM (part_000 lines 158-166) and the inbound decode (lines  *)
(* 317-324).  Samples are fractions [num, den]; the input samples are the  *)
(* multiples of 1/Resolution in [-2, 2].                                   *)
(***************************************************************************)

Samples == (-2 * Resolution)..(2 * Resolution)

Fraction(n, d) == [num |-> n, den |-> d]

\* (variant of line 162 without the clamping)
NoClamp(x) == x

\* line 162: Math.max(-1, Math.min(1, x)), x a fraction
Clamp(x) ==
  IF x.num > x.den THEN Fraction(x.den, x.den)
  ELSE IF x.num < -x.den THEN Fraction(-x.den, x.den)
  ELSE x

\* s < 0 ? s * 0x8000 : s * 0x7FFF (line 163)
Scale(s) ==
  IF s.num < 0 THEN Fraction(s.num * 32768, s.den) ELSE Fraction(s.num * 32767, s.den)

\* the conversion of a number to an Int16Array element: the fraction is
\* dropped (towards zero) and the integer reduced modulo 2^16
Truncate(x) ==
  IF x.num >= 0 THEN x.num \div x.den ELSE -((-x.num) \div x.den)

ToInt16(n) == ((n + 32768) % 65536) - 32768

floatTo16BitPCM(x) == ToInt16(Truncate(Scale(Clamp(x))))

\* line 323: dataInt16[i] / 32768.0
DecodeSample(n) == Fraction(n, 32768)

PcmInit ==
  /\ sample = Fraction(0, Resolution)
  /\ pcm16 = 0
  /\ float32 = Fraction(0, 32768)
  /\ pcmPc = "idle"

\* a sample of the input buffer (line 368)
Capture(n) ==
  /\ PcmOnly
  /\ pcmPc = "idle"
  /\ sample' = Fraction(n, Resolution)
  /\ pcmPc' = "captured"
  /\ UNCHANGED <<pcm16, float32>>

Encode ==
  /\ PcmOnly
  /\ pcmPc = "captured"
  /\ pcm16' = floatTo16BitPCM(sample)
  /\ pcmPc' = "encoded"
  /\ UNCHANGED <<sample, float32>>

Decode ==
  /\ PcmOnly
  /\ pcmPc = "encoded"
  /\ float32' = DecodeSample(pcm16)
  /\ pcmPc' = "decoded"
  /\ UNCHANGED <<sample, pcm16>>

NextSample ==
  /\ PcmOnly
  /\ pcmPc = "decoded"
  /\ sample' = Fraction(0, Resolution)
  /\ pcm16' = 0
  /\ float32' = Fraction(0, 32768)
  /\ pcmPc' = "idle"

PcmNext ==
  \/ \E n \in Samples : Capture(n)
  \/ Encode
  \/ Decode
  \/ NextSample

---------------------------------------------------------------------------
(***************************************************************************)
(* LiveInterface, part_000 lines 168-424.                                  *)
(***************************************************************************)

Calls == 1..MaxConnects

Kinds == {"context", "stream", "source", "processor", "session"}

Durations == {1, 2}

Max(a, b) == IF a < b THEN b ELSE a

\* what is known of the buffers connection k has scheduled: how many, the
\* end of the one before the last, the start and end of the last, and
\* whether the last arrived with the playback clock not past
\* nextStartTimeRef
NoSched == [n |-> 0, prevEnd |-> 0, start |-> 0, end |-> 0, onTime |-> FALSE]

\* a channel: its state, whether close() was asked of it, and pending,
\* the microphone frames captured and encoded whose send waits for the
\* session promise (lines 375-382), counted up to MaxPendingFrames
NoSession == [state |-> "none", closeAsked |-> FALSE, pending |-> 0]

\* built with or without process.env.API_KEY: keys is the set of cases
LiveInitWith(keys) ==
  /\ isConnected = FALSE
  /\ isTalking = FALSE
  /\ error = "none"
  /\ inputContextRef = 0
  /\ streamRef = 0
  /\ sourceRef = 0
  /\ processorRef = 0
  /\ sessionRef = 0
  /\ nextStartTimeRef = 0
  /\ sourcesRef = {}
  /\ hasApiKey \in keys
  /\ currentTime = 0
  /\ calls = [k \in Calls |-> "none"]
  /\ sessions = [k \in Calls |-> NoSession]
  /\ resources = [x \in Kinds \X Calls |-> "none"]
  /\ stopped = 0
  /\ nBuffers = 0
  /\ sched = [k \in Calls |-> NoSched]
  /\ disconnectsInRow = 0

\* the part of the state disconnect() reads and writes, as one record
LiveState ==
  [isConnected |-> isConnected, isTalking |-> isTalking,
   inputContextRef |-> inputContextRef, streamRef |-> streamRef,
   sourceRef |-> sourceRef, processorRef |-> processorRef,
   sessionRef |-> sessionRef, sourcesRef |-> sourcesRef,
   sessions |-> sessions, resources |-> resources, stopped |-> stopped]

SetLiveState(s) ==
  /\ isConnected' = s.isConnected
  /\ isTalking' = s.isTalking
  /\ inputContextRef' = s.inputContextRef
  /\ streamRef' = s.streamRef
  /\ sourceRef' = s.sourceRef
  /\ processorRef' = s.processorRef
  /\ sessionRef' = s.sessionRef
  /\ sourcesRef' = s.sourcesRef
  /\ sessions' = s.sessions
  /\ resources' = s.resources
  /\ stopped' = s.stopped

\* an object is made / is released (stop(), disconnect(), close())
Open(res, kind, k) == [res EXCEPT ![<<kind, k>>] = "open"]

Release(res, kind, k) ==
  [res EXCEPT ![<<kind, k>>] = IF @ = "open" THEN "released" ELSE "twice"]

\* (variant of lines 394-397 that leaves streamRef set)
StopMicrophoneKeepsRef(s) ==
  IF s.streamRef # 0
  THEN [s EXCEPT !.resources = Release(@, "stream", s.streamRef)]
  ELSE s

\* lines 394-397
StopMicrophone(s) ==
  IF s.streamRef # 0
  THEN [s EXCEPT !.resources = Release(@, "stream", s.streamRef), !.streamRef = 0]
  ELSE s

\* lines 398-401
DisconnectProcessor(s) ==
  IF s.processorRef # 0
  THEN [s EXCEPT !.resources = Release(@, "processor", s.processorRef), !.processorRef = 0]
  ELSE s

\* lines 402-405
DisconnectSource(s) ==
  IF s.sourceRef # 0
  THEN [s EXCEPT !.resources = Release(@, "source", s.sourceRef), !.sourceRef = 0]
  ELSE s

\* lines 406-409
CloseInputContext(s) ==
  IF s.inputContextRef # 0
  THEN [s EXCEPT !.resources = Release(@, "context", s.inputContextRef),
                 !.inputContextRef = 0]
  ELSE s

\* lines 412-416: close() is asked of the session the promise resolves to;
\* it takes effect once the channel is open
CloseSession(s) ==
  IF s.sessionRef # 0
  THEN [s EXCEPT !.resources = Release(@, "session", s.sessionRef),
                 !.sessions[s.sessionRef].closeAsked = TRUE,
                 !.sessionRef = 0]
  ELSE s

\* lines 419-420
StopPlaying(s) ==
  [s EXCEPT !.stopped = @ + Cardinality(s.sourcesRef), !.sourcesRef = {}]

\* lines 422-423
ClearFlags(s) == [s EXCEPT !.isConnected = FALSE, !.isTalking = FALSE]

\* disconnect(), lines 392-424
AfterDisconnect(s) ==
  ClearFlags(StopPlaying(CloseSession(CloseInputContext(
    DisconnectSource(DisconnectProcessor(StopMicrophone(s)))))))

InRow(n) == IF n < 2 THEN n + 1 ELSE 2

\* the DISCONNECT button, lines 496-503, shown while isConnected
Disconnect ==
  /\ LiveOnly
  /\ isConnected
  /\ SetLiveState(AfterDisconnect(LiveState))
  /\ disconnectsInRow' = InRow(disconnectsInRow)
  /\ UNCHANGED <<error, nextStartTimeRef, hasApiKey, currentTime, calls,
                 nBuffers, sched>>

\* (variant of line 273 that never finds the key missing)
KeyNeverMissing == FALSE

\* line 273: !process.env.API_KEY
KeyMissing == ~hasApiKey

\* the GO LIVE button, shown while not isConnected: connect(), lines
\* 272-284, up to the await of getUserMedia
Connect(k) ==
  /\ LiveOnly
  /\ ~isConnected
  /\ calls[k] = "none"
  /\ \A j \in Calls : j < k => calls[j] # "none"
  /\ disconnectsInRow' = 0
  /\ IF KeyMissing
     THEN /\ error' = "Gemini API Key missing"
          /\ UNCHANGED <<isConnected, isTalking, inputContextRef, streamRef, sourceRef,
                         processorRef, sessionRef, nextStartTimeRef, sourcesRef,
                         hasApiKey, currentTime, calls, sessions, resources,
                         stopped, nBuffers, sched>>
     ELSE /\ error' = "none"
          /\ inputContextRef' = k
          /\ resources' = Open(resources, "context", k)
          /\ calls' = [calls EXCEPT ![k] = "gum"]
          /\ UNCHANGED <<isConnected, isTalking, streamRef, sourceRef, processorRef,
                         sessionRef, nextStartTimeRef, sourcesRef, hasApiKey,
                         currentTime, sessions, stopped, nBuffers, sched>>

\* lines 284-363, 385-389: getUserMedia settles.  On success the stream is
\* stored, the source and the processor are made on the context
\* inputContextRef holds now (a TypeError if it holds none), the channel is
\* asked for and its promise stored.  A rejection or the TypeError is
\* caught: setError and disconnect().
GetUserMediaSettles(k, ok) ==
  /\ LiveOnly
  /\ calls[k] = "gum"
  /\ calls' = [calls EXCEPT ![k] = "done"]
  /\ UNCHANGED <<nextStartTimeRef, hasApiKey, currentTime, nBuffers, sched>>
  /\ IF ~ok
     THEN /\ error' = "Failed to start Live session"
          /\ SetLiveState(AfterDisconnect(LiveState))
          /\ disconnectsInRow' = InRow(disconnectsInRow)
     ELSE IF inputContextRef = 0
     THEN /\ error' = "Failed to start Live session"
          /\ SetLiveState(AfterDisconnect(
               [LiveState EXCEPT !.streamRef = k,
                                 !.resources = Open(@, "stream", k)]))
          /\ disconnectsInRow' = InRow(disconnectsInRow)
     ELSE /\ streamRef' = k
          /\ sourceRef' = k
          /\ processorRef' = k
          /\ sessionRef' = k
          /\ sessions' = [sessions EXCEPT ![k] = [state |-> "connecting", closeAsked |-> FALSE,
                                                  pending |-> 0]]
          /\ resources' = Open(Open(Open(Open(resources, "stream", k), "source", k),
                                    "processor", k), "session", k)
          /\ disconnectsInRow' = 0
          /\ UNCHANGED <<isConnected, isTalking, error, inputContextRef, sourcesRef, stopped>>

\* onopen, lines 304-308
OnOpen(k) ==
  /\ LiveOnly
  /\ sessions[k].state = "connecting"
  /\ sessions' = [sessions EXCEPT ![k].state = "open", ![k].pending = 0]
  /\ isConnected' = TRUE
  /\ nextStartTimeRef' = 0
  /\ disconnectsInRow' = 0
  /\ UNCHANGED <<isTalking, error, inputContextRef, streamRef, sourceRef, processorRef,
                 sessionRef, sourcesRef, hasApiKey, currentTime, calls, resources,
                 stopped, nBuffers, sched>>

\* (variant without lines 336-338: the clock is not looked at)
ScheduledStartNoClock == nextStartTimeRef

\* onaudioprocess of the processor of call k, lines 366-383, wired at the
\* end of connect(): the frame is encoded at once and its send is chained
\* on the session promise, which resolves when the channel has opened.  A
\* frame captured while the channel is open is sent at once.
FramesPending(n) == IF n < MaxPendingFrames THEN n + 1 ELSE MaxPendingFrames

OnAudioProcess(k) ==
  /\ LiveOnly
  /\ resources[<<"processor", k>>] = "open"
  /\ sessions[k].state \in {"connecting", "open"}
  /\ sessions' = IF sessions[k].state = "connecting"
                 THEN [sessions EXCEPT ![k].pending = FramesPending(@)]
                 ELSE sessions
  /\ disconnectsInRow' = 0
  /\ UNCHANGED <<isConnected, isTalking, error, inputContextRef, streamRef, sourceRef,
                 processorRef, sessionRef, nextStartTimeRef, sourcesRef, hasApiKey,
                 currentTime, calls, resources, stopped, nBuffers, sched>>

\* lines 336-339: the start of the buffer that arrives now
ScheduledStart == Max(nextStartTimeRef, currentTime)

\* onmessage with audio of duration d on the channel of call k, lines
\* 309-349
OnMessage(k, d) ==
  /\ LiveOnly
  /\ sessions[k].state = "open"
  /\ nBuffers < MaxBuffers
  /\ nBuffers' = nBuffers + 1
  /\ isTalking' = TRUE
  /\ sourcesRef' = sourcesRef \cup {[id |-> nBuffers + 1, end |-> ScheduledStart + d]}
  /\ nextStartTimeRef' = ScheduledStart + d
  /\ sched' = [sched EXCEPT ![k] = [n |-> IF @.n < 2 THEN @.n + 1 ELSE 2,
                                    prevEnd |-> @.end,
                                    start |-> ScheduledStart,
                                    end |-> ScheduledStart + d,
                                    onTime |-> currentTime <= nextStartTimeRef]]
  /\ disconnectsInRow' = 0
  /\ UNCHANGED <<isConnected, error, inputContextRef, streamRef, sourceRef, processorRef,
                 sessionRef, hasApiKey, currentTime, calls, sessions, resources, stopped>>

\* source.onended of a source that has played to its end, lines 344-347
SourceEnded(x) ==
  /\ LiveOnly
  /\ x \in sourcesRef
  /\ x.end <= currentTime
  /\ sourcesRef' = sourcesRef \ {x}
  /\ isTalking' = IF sourcesRef \ {x} = {} THEN FALSE ELSE isTalking
  /\ disconnectsInRow' = 0
  /\ UNCHANGED <<isConnected, error, inputContextRef, streamRef, sourceRef, processorRef,
                 sessionRef, nextStartTimeRef, hasApiKey, currentTime, calls, sessions,
                 resources, stopped, nBuffers, sched>>

\* source.onended of a source disconnect() stopped, lines 344-347: the
\* source is in the set no more
StoppedSourceEnded ==
  /\ LiveOnly
  /\ stopped > 0
  /\ stopped' = stopped - 1
  /\ isTalking' = IF sourcesRef = {} THEN FALSE ELSE isTalking
  /\ disconnectsInRow' = 0
  /\ UNCHANGED <<isConnected, error, inputContextRef, streamRef, sourceRef, processorRef,
                 sessionRef, nextStartTimeRef, sourcesRef, hasApiKey, currentTime,
                 calls, sessions, resources, nBuffers, sched>>

\* onclose, lines 350-354: the channel has closed, by the peer or because
\* close() was asked
OnClose(k) ==
  /\ LiveOnly
  /\ sessions[k].state \in {"open", "failed"}
  /\ sessions' = [sessions EXCEPT ![k].state = "closed"]
  /\ isConnected' = FALSE
  /\ isTalking' = FALSE
  /\ disconnectsInRow' = 0
  /\ UNCHANGED <<error, inputContextRef, streamRef, sourceRef, processorRef, sessionRef,
                 nextStartTimeRef, sourcesRef, hasApiKey, currentTime, calls, resources,
                 stopped, nBuffers, sched>>

\* onerror, lines 355-359
OnError(k) ==
  /\ LiveOnly
  /\ sessions[k].state \in {"connecting", "open"}
  /\ error' = "Connection Error"
  /\ SetLiveState(AfterDisconnect([LiveState EXCEPT !.sessions[k].state = "failed"]))
  /\ disconnectsInRow' = InRow(disconnectsInRow)
  /\ UNCHANGED <<nextStartTimeRef, hasApiKey, currentTime, calls, nBuffers, sched>>

\* the playback clock advances
ClockAdvances ==
  /\ LiveOnly
  /\ currentTime < MaxClock
  /\ currentTime' = currentTime + 1
  /\ UNCHANGED <<isConnected, isTalking, error, inputContextRef, streamRef, sourceRef,
                 processorRef, sessionRef, nextStartTimeRef, sourcesRef, hasApiKey,
                 calls, sessions, resources, stopped, nBuffers, sched, disconnectsInRow>>

LiveNext ==
  \/ \E k \in Calls : Connect(k)
  \/ \E k \in Calls, ok \in BOOLEAN : GetUserMediaSettles(k, ok)
  \/ \E k \in Calls : OnOpen(k)
  \/ \E k \in Calls : OnAudioProcess(k)
  \/ \E k \in Calls, d \in Durations : OnMessage(k, d)
  \/ \E k \in Calls : OnClose(k)
  \/ \E k \in Calls : OnError(k)
  \/ \E x \in sourcesRef : SourceEnded(x)
  \/ StoppedSourceEnded
  \/ Disconnect
  \/ ClockAdvances

---------------------------------------------------------------------------
(***************************************************************************)
(* ChatInterface.tsx, lines 34-57 and 129-202.  An entry of the list is    *)
(* [role, content, isStreaming]; content is a sequence of pieces, and      *)
(* isStreaming is "unset" for an entry made without the field.             *)
(***************************************************************************)

Models == {"llama", "qwen"}

ChatEntry(role, content, flag) ==
  [role |-> role, content |-> content, isStreaming |-> flag]

NoStream == [pc |-> "none", fullContent |-> <<>>]

\* lines 35-37, then the effect of lines 51-57 at mount
ChatInit ==
  /\ chatMessages = << ChatEntry("system", <<"initialized">>, "unset"),
                       ChatEntry("system", <<"switched">>, "unset") >>
  /\ inputValue = ""
  /\ isLoading = FALSE
  /\ settings = [apiKey |-> TRUE, model |-> "llama"]
  /\ stream = NoStream
  /\ nSubmits = 0
  /\ nModelChanges = 0

\* lines 176-183 and 195-200: the updater acts on the last entry of the list
WithLast(list, field, value) ==
  [list EXCEPT ![Len(list)] = [@ EXCEPT ![field] = value]]

\* lines 177-182: the chunk text is written only if the last entry is the
\* assistant's
ChunkApplied(list, text) ==
  IF list[Len(list)].role = "assistant"
  THEN WithLast(list, "content", text)
  ELSE list

\* lines 195-200, the finally block's updater
FlagCleared(list) == WithLast(list, "isStreaming", "false")

\* line 321, onChange of the input field (disabled while loading, line 324)
TypeInput ==
  /\ ChatOnly
  /\ ~isLoading
  /\ inputValue = ""
  /\ inputValue' = "text"
  /\ UNCHANGED <<chatMessages, isLoading, settings, stream, nSubmits, nModelChanges>>

\* handleSubmit, lines 129-170, up to the await of line 174
HandleSubmit ==
  /\ ChatOnly
  /\ nSubmits < MaxSubmits
  /\ ~(inputValue = "" \/ isLoading)                          \* line 131
  /\ nSubmits' = nSubmits + 1
  /\ IF ~settings.apiKey                                       \* line 133
     THEN /\ chatMessages' =
               Append(chatMessages, ChatEntry("system", <<"key missing">>, "unset"))
          /\ UNCHANGED <<inputValue, isLoading, stream>>
     ELSE /\ chatMessages' =                                   \* lines 154, 165
               Append(Append(chatMessages, ChatEntry("user", <<"input">>, "unset")),
                      ChatEntry("assistant", <<>>, "true"))
          /\ inputValue' = ""                                  \* line 155
          /\ isLoading' = TRUE                                 \* line 156
          /\ stream' = [pc |-> "streaming", fullContent |-> <<>>]
  /\ UNCHANGED <<settings, nModelChanges>>

\* the onChunk callback, lines 174-184
OnChunk ==
  /\ ChatOnly
  /\ stream.pc = "streaming"
  /\ Len(stream.fullContent) < MaxChunks
  /\ stream' = [stream EXCEPT !.fullContent = Append(@, "chunk")]   \* line 175
  /\ chatMessages' = ChunkApplied(chatMessages, stream'.fullContent)
  /\ UNCHANGED <<inputValue, isLoading, settings, nSubmits, nModelChanges>>

\* streamChatCompletion resolves: the finally block, lines 193-201
StreamCompletes ==
  /\ ChatOnly
  /\ stream.pc = "streaming"
  /\ isLoading' = FALSE
  /\ chatMessages' = FlagCleared(chatMessages)
  /\ stream' = NoStream
  /\ UNCHANGED <<inputValue, settings, nSubmits, nModelChanges>>

\* streamChatCompletion rejects (groqService.ts line 63): the catch block,
\* lines 186-192, then the finally block
StreamFails ==
  /\ ChatOnly
  /\ stream.pc = "streaming"
  /\ isLoading' = FALSE
  /\ chatMessages' =
       FlagCleared(Append(chatMessages, ChatEntry("assistant", <<"error">>, "unset")))
  /\ stream' = NoStream
  /\ UNCHANGED <<inputValue, settings, nSubmits, nModelChanges>>

\* the model radio of the settings dialog (part_000 lines 53, 67) and the
\* effect of ChatInterface.tsx lines 51-57
ChangeModel ==
  /\ ChatOnly
  /\ nModelChanges < MaxModelChanges
  /\ nModelChanges' = nModelChanges + 1
  /\ settings' = [settings EXCEPT !.model = CHOOSE m \in Models : m # @]
  /\ chatMessages' = Append(chatMessages, ChatEntry("system", <<"switched">>, "unset"))
  /\ UNCHANGED <<inputValue, isLoading, stream, nSubmits>>

\* the key field of the settings dialog (part_000 line 34)
ChangeApiKey ==
  /\ ChatOnly
  /\ stream.pc = "none"
  /\ settings' = [settings EXCEPT !.apiKey = ~@]
  /\ UNCHANGED <<chatMessages, inputValue, isLoading, stream, nSubmits, nModelChanges>>

ChatNext ==
  \/ TypeInput
  \/ HandleSubmit
  \/ OnChunk
  \/ StreamCompletes
  \/ StreamFails
  \/ ChangeModel
  \/ ChangeApiKey

---------------------------------------------------------------------------
(***************************************************************************)
(* The reasoning rewrite, VoiceInterface.tsx lines 242-263, for every      *)
(* transcript of up to MaxTranscriptLen tokens.  A transcript is a         *)
(* sequence of tokens: "S" is the text /think and "K" the text slash think *)
(* (in any case of letters), "W" a whitespace character and "T" any other  *)
(* character; "D" is the default prompt "Think about this.".               *)
(***************************************************************************)

TranscriptTokens == {"S", "K", "W", "T"}

Transcripts == UNION {[1..n -> TranscriptTokens] : n \in 0..MaxTranscriptLen}

\* String.prototype.replace with a regex without the g flag: the first
\* match is removed
RemoveFirst(s, token) ==
  LET hits == {i \in 1..Len(s) : s[i] = token}
  IN IF hits = {} THEN s
     ELSE SubSeq(s, 1, SeqMin(hits) - 1) \o SubSeq(s, SeqMin(hits) + 1, Len(s))

\* line 246: includes('/think') || startsWith('slash think'), on the
\* lower-cased transcript
HasTrigger(s) ==
  \/ \E i \in 1..Len(s) : s[i] = "S"
  \/ Len(s) > 0 /\ s[1] = "K"

\* line 246: the model test and the trigger test
RewriteApplies(m, s) == m = "qwen" /\ HasTrigger(s)

\* lines 248-249
Rewritten(s) ==
  LET stripped == Trim(RemoveFirst(RemoveFirst(s, "S"), "K"))
  IN IF stripped = <<>> THEN <<"D">> ELSE stripped

RewriteInit ==
  /\ turnTranscript = <<>>
  /\ model = "llama"
  /\ cleanContent = <<>>
  /\ isReasoning = FALSE
  /\ rewritePc = "idle"

\* line 226: transcribeAudio returns a non-blank text (line 228), with the
\* model selected in the settings
TranscriptArrives(m, text) ==
  /\ RewriteOnly
  /\ rewritePc = "idle"
  /\ Trim(text) # <<>>
  /\ turnTranscript' = text
  /\ model' = m
  /\ rewritePc' = "transcribed"
  /\ UNCHANGED <<cleanContent, isReasoning>>

\* lines 243-263: the text and the option getChatCompletion is called with
RewriteForCompletion ==
  /\ RewriteOnly
  /\ rewritePc = "transcribed"
  /\ isReasoning' = RewriteApplies(model, turnTranscript)
  /\ cleanContent' = IF RewriteApplies(model, turnTranscript)
                     THEN Rewritten(turnTranscript) ELSE turnTranscript
  /\ rewritePc' = "requested"
  /\ UNCHANGED <<turnTranscript, model>>

\* the turn ends; the next transcript is a new call
RewriteTurnEnds ==
  /\ RewriteOnly
  /\ rewritePc = "requested"
  /\ turnTranscript' = <<>>
  /\ model' = "llama"
  /\ cleanContent' = <<>>
  /\ isReasoning' = FALSE
  /\ rewritePc' = "idle"

RewriteNext ==
  \/ \E m \in Models, text \in Transcripts : TranscriptArrives(m, text)
  \/ RewriteForCompletion
  \/ RewriteTurnEnds

---------------------------------------------------------------------------
(* The specifications. *)

LiveInit == LiveInitWith({TRUE})

KeyInit == voiceApiKey = TRUE

Init ==
  VoiceInit /\ LiveInit /\ StripInit /\ PcmInit /\ ChatInit /\ RewriteInit /\ KeyInit

VoiceSpec == Init /\ [][VoiceNext]_vars

\* every pending getUserMedia, recorder stop, provider call, decoding and
\* playback eventually settles, with either outcome
VoiceFairness ==
  /\ WF_vars(\E ok \in BOOLEAN : ConnectStreamSettles(ok))
  /\ WF_vars(\E ok \in BOOLEAN : StartRecordingSettles(ok))
  /\ WF_vars(\E r \in 1..MaxRecorders : StopEvent(r))
  /\ WF_vars(\E t \in turns, x \in {"fail", "empty", "text"} : TranscribeSettles(t, x))
  /\ WF_vars(\E t \in turns, ok \in BOOLEAN, txt \in CompletionTexts :
               CompletionSettles(t, ok, txt))
  /\ WF_vars(\E t \in turns, ok \in BOOLEAN : SynthesisSettles(t, ok))
  /\ WF_vars(\E t \in turns, ok \in BOOLEAN : DecodeSettles(t, ok))
  /\ WF_vars(\E t \in turns : PlaybackEnded(t))

VoiceFairSpec == Init /\ [][VoiceNext]_vars /\ VoiceFairness

\* the build may or may not carry process.env.API_KEY
InitAnyKey ==
  /\ VoiceInit /\ LiveInitWith(BOOLEAN) /\ StripInit /\ PcmInit /\ ChatInit
  /\ RewriteInit /\ KeyInit

LiveSpec == InitAnyKey /\ [][LiveNext]_vars

StripSpec == Init /\ [][StripNext]_vars

PcmSpec == Init /\ [][PcmNext]_vars

ChatSpec == Init /\ [][ChatNext]_vars

RewriteSpec == Init /\ [][RewriteNext]_vars

\* the voice orchestrator, its turns ended by the button, with a key that
\* the user may clear and enter
KeyNext ==
  \/ ClickStart
  \/ ClickStop
  \/ ToggleHandsFree
  \/ ChangeVoiceApiKey
  \/ \E ok \in BOOLEAN : ConnectStreamSettles(ok)
  \/ \E ok \in BOOLEAN : StartRecordingSettles(ok)
  \/ \E r \in 1..MaxRecorders : StopEvent(r)
  \/ \E t \in turns, x \in {"fail", "empty", "text"} : TranscribeSettles(t, x)
  \/ \E t \in turns, ok \in BOOLEAN, txt \in CompletionTexts : CompletionSettles(t, ok, txt)
  \/ \E t \in turns, ok \in BOOLEAN : SynthesisSettles(t, ok)
  \/ \E t \in turns, ok \in BOOLEAN : DecodeSettles(t, ok)
  \/ \E t \in turns : PlaybackEnded(t)

KeySpec == Init /\ [][KeyNext]_vars

---------------------------------------------------------------------------
(***************************************************************************)
(* Properties of the voice orchestrator (VoiceSpec).                       *)
(***************************************************************************)

C1_SessionCounts ==
  \A s \in SessionIds :
    /\ sttCalls[s] <= 1
    /\ clips[s] >= 1 => sttCalls[s] = 1

C1_LockedDrops ==
  isProcessingRef => /\ nTurns' = nTurns
                     /\ status' = "processing" => status = "processing"
                     /\ \A r \in 1..MaxRecorders :
                          recorders'[r].state = "stopping" => recorders[r].state = "stopping"

\* C1: in one listening session, however the manual stop and the VAD
\* triggers of the running loops interleave, transcribeAudio is called at
\* most once, and exactly once when a clip was produced for a trigger of
\* the session; while the processing lock is set no step accepts a trigger
\* (none enters processing, none stops a recorder, none is kept for later).
C1_OneTranscriptionPerSession ==
  []C1_SessionCounts /\ [][C1_LockedDrops]_vars

\* C1 (case reached): the session has had its transcription, the turn has
\* ended, and a VAD trigger accepted later in the same session is waiting
\* for a clip that the stopped recorder does not produce.
C1_Witness ==
  /\ nTurns = 2
  /\ sttCalls[session] = 1
  /\ obs.raises > 0
  /\ status = "processing"
  /\ isProcessingRef
  /\ turns = {}
  /\ PendingStarts = 0

\* C2: once a provider call or the decoding has failed with nothing else
\* in flight, the status is idle with the lock cleared, and stays so until
\* the user starts a new listening session.
C2_FailureStaysIdle ==
  obs.failedQuiet => status = "idle" /\ ~isProcessingRef

\* C3: the VAD raises "turn complete" in a listening session only if some
\* frame analysed since the session began was above SILENCE_THRESHOLD.
C3_NoRaiseOnSilenceOnly ==
  obs.raises > 0 => obs.loudSinceStart

\* C3 (case reached): a hands-free session in which the loop has analysed
\* frames for MaxTicks clock steps, none of them above the threshold, and
\* the VAD has not raised.
C3_Witness ==
  /\ status = "listening"
  /\ isHandsFree
  /\ loops # <<>>
  /\ now = TickMs * (MaxTicks + 1)
  /\ ~obs.loudSinceStart
  /\ obs.raises = 0

\* C4: after the VAD has raised "turn complete", it does not raise again
\* before the VAD state has been reset by a new listening session.
C4_OneRaisePerReset ==
  obs.raises <= 1

\* C6: when transcribeAudio returns an empty transcript, nothing is
\* recorded, and the orchestrator restarts listening if hands-free mode is
\* on, or is idle with the lock cleared if it is off.
C6_EmptyTranscript ==
  [][\A t \in turns :
       (t.pc = "transcribing" /\ TranscribeSettles(t, "empty")) =>
         /\ messages' = messages
         /\ isHandsFree => starts' = SpawnStart
         /\ ~isHandsFree => status' = "idle" /\ ~isProcessingRef' /\ starts' = starts]_vars

\* C9: every recorder that is recording is the one mediaRecorderRef refers
\* to, the only one a stopRecording can reach and release.
C9_RecordingIsReachable ==
  \A r \in 1..MaxRecorders :
    recorders[r].state = "recording" => r = mediaRecorderRef

\* the edges of the status graph
StatusEdges ==
  {<<"idle", "listening">>, <<"listening", "processing">>,
   <<"processing", "speaking">>, <<"processing", "idle">>,
   <<"processing", "listening">>, <<"speaking", "idle">>,
   <<"speaking", "listening">>}

\* handleStopAndProcess with no recorder sets the status twice in one task
\* (lines 211 and 218): processing, then idle
ThroughProcessing ==
  /\ mediaRecorderRef = 0
  /\ ~isProcessingRef
  /\ <<status, "processing">> \in StatusEdges
  /\ <<"processing", status'>> \in StatusEdges

\* C12: every change of the status follows an edge of the graph, whatever
\* the interleaving of clicks, VAD triggers and settling calls.
C12_StatusFollowsGraph ==
  [][status' # status =>
       (<<status, status'>> \in StatusEdges \/ ThroughProcessing)]_vars

\* C13: in every turn the provider calls are issued in the order
\* transcription, completion, synthesis; the completion is issued only
\* with the transcript the transcription returned, the synthesis only
\* with the reply the completion returned.
C13_CallsInOrder ==
  \A t \in turns :
    /\ t.called \in {<<>>, <<"stt">>, <<"stt", "llm">>, <<"stt", "llm", "tts">>}
    /\ Len(t.called) >= 2 => t.transcript # "none"
    /\ Len(t.called) >= 3 => t.reply # "none"

\* C13 (case reached): a turn has issued all three calls and waits for
\* the synthesis.
C13_Witness ==
  \E t \in turns : t.pc = "synthesizing" /\ t.called = <<"stt", "llm", "tts">>

\* C14: when the playback of a response ends, the orchestrator restarts
\* listening if hands-free mode is on at that moment, and otherwise is
\* idle with the lock cleared and starts nothing.
C14_PlaybackCompletion ==
  [][\A t \in turns :
       (t.pc = "playing" /\ PlaybackEnded(t)) =>
         /\ isHandsFree => starts' = SpawnStart
         /\ ~isHandsFree => status' = "idle" /\ ~isProcessingRef' /\ starts' = starts]_vars

\* C15: a step in which transcribeAudio, getChatCompletion or
\* generateSpeech fails appends a system entry to the turn list.
C15_FailureIsReported ==
  [][\A t \in turns :
       (\/ TranscribeSettles(t, "fail")
        \/ \E txt \in CompletionTexts : CompletionSettles(t, FALSE, txt)
        \/ SynthesisSettles(t, FALSE)) =>
         /\ Len(messages') = Len(messages) + 1
         /\ messages'[Len(messages')].role = "system"]_vars

\* C16: when the getUserMedia of startRecording is rejected, no recorder
\* starts recording and the status ends as idle.
C16_DeniedEndsIdle ==
  [][StartRecordingSettles(FALSE) =>
       /\ status' = "idle"
       /\ \A r \in 1..MaxRecorders :
            recorders'[r].state = "recording" => recorders[r].state = "recording"]_vars

\* no recording is active: none was ever started, or the recorder
\* mediaRecorderRef refers to has been stopped
NoActiveRecording ==
  \/ mediaRecorderRef = 0
  \/ recorders[mediaRecorderRef].state = "inactive"

\* C17: a stopRecording call made while no recording is active resolves
\* null, so the handleStopAndProcess that made it ends idle with the lock
\* cleared in the same task; no step leaves it waiting in processing with
\* the lock set.
C17_StopWithoutRecordingResolves ==
  [][(NoActiveRecording /\ ~isProcessingRef) =>
       ~(isProcessingRef' /\ status' = "processing")]_vars

\* the recorders that are recording
Recording == {r \in 1..MaxRecorders : recorders[r].state = "recording"}

\* C18: at most one recording is active at any time.
C18_OneRecording ==
  Cardinality(Recording) <= 1

\* the recorders whose stream is open: the tracks are stopped in onstop
\* (line 51)
RecorderStreams ==
  {r \in 1..MaxRecorders : recorders[r].state \in {"recording", "stopping"}}

\* C19: at most one microphone stream is open at any time.
C19_OneMicrophoneStream ==
  obs.vadStreams + Cardinality(RecorderStreams) <= 1

\* C26: the turn list is append-only: every step leaves the entries
\* recorded so far in place and in order, and only adds at the end.
C26_TurnsAppendOnly ==
  [][/\ Len(messages') >= Len(messages)
     /\ SubSeq(messages', 1, Len(messages)) = messages]_vars

\* C28: when the completion text is empty once the thought markup is
\* stripped and the rest trimmed, the synthesis service is not called for
\* the turn, and listening restarts if hands-free mode is on, or the status
\* becomes idle if it is off.
C28_EmptySpeechText ==
  [][\A t \in turns, txt \in CompletionTexts :
       (SpeechText(txt) = <<>> /\ CompletionSettles(t, TRUE, txt)) =>
         /\ \A u \in turns' : u.id = t.id => "tts" \notin Range(u.called)
         /\ isHandsFree => starts' = SpawnStart
         /\ ~isHandsFree => status' = "idle" /\ starts' = starts]_vars

\* C29: the processing lock is set while the status is processing or
\* speaking and clear while the status is idle or listening.
C29_LockFollowsStatus ==
  /\ status \in {"processing", "speaking"} => isProcessingRef
  /\ status \in {"idle", "listening"} => ~isProcessingRef

\* C30: the VAD raises "turn complete" only in a listening session, when a
\* frame above SILENCE_THRESHOLD was analysed since the session began and the
\* frames analysed since the last such frame were all at or below the
\* threshold over strictly more than SILENCE_DURATION; a frame above the
\* threshold restarts the silence timer.
C30_RaiseOnlyAfterSilence ==
  [][obs'.raises > obs.raises =>
       /\ status = "listening"
       /\ obs'.loudSinceStart
       /\ obs'.quietSince # 0
       /\ now' - obs'.quietSince > SILENCE_DURATION]_vars

\* C31: the silence-start time stamp is set only if speech has started
\* since the VAD state was reset and the frame analysed last was at or below
\* the threshold; a frame above the threshold clears it.
C31_SilenceTimerState ==
  silenceStartTimeRef # 0 => hasSpokenRef /\ obs.quietSince # 0

\* the timer runs in a hands-free listening session
C31_Witness ==
  /\ status = "listening"
  /\ isHandsFree
  /\ hasSpokenRef
  /\ silenceStartTimeRef # 0
  /\ obs.quietSince = silenceStartTimeRef

\* C32: each time the status becomes listening (a session starts, by the
\* user or by the hands-free restart) the VAD state has its initial value:
\* speech not started, no silence start, no last-speech time; and the lock
\* is clear.
C32_SessionStartsReset ==
  [][(status' = "listening" /\ (status # "listening" \/ session' # session)) =>
       /\ ~hasSpokenRef'
       /\ silenceStartTimeRef' = 0
       /\ lastSpeechTimeRef' = 0
       /\ ~isProcessingRef']_vars

\* a hands-free session that has just begun after a completed turn, with
\* the VAD state reset
C32_Witness ==
  /\ status = "listening"
  /\ isHandsFree
  /\ Len(messages) = 3
  /\ turns = {}
  /\ obs.raises = 0
  /\ ~obs.loudSinceStart
  /\ ~hasSpokenRef
  /\ silenceStartTimeRef = 0
  /\ lastSpeechTimeRef = 0
  /\ ~isProcessingRef

\* C34: while hands-free mode is off no analysed frame ends a turn (the
\* status and the turns stay as they are, no recorder is stopped), and a
\* toggle of the mode changes neither the status nor the recorders and
\* starts no listening session.
C34_ManualModeNeverAutoStops ==
  [][/\ (~isHandsFree /\ \E l \in Range(loops), v \in Volumes, d \in Elapsed :
                            Frame(l, v, d)) =>
          UNCHANGED <<status, nTurns, turns, recorders, isProcessingRef>>
     /\ ToggleHandsFree => UNCHANGED <<status, recorders, starts>>]_vars

\* C36: at most one sampling loop is running, and it decides with the
\* current status and hands-free value: every loop that can still pass the
\* test of line 86 was started by the current render.
C36_OneCurrentLoop ==
  /\ Len(loops) <= 1
  /\ \A l \in Range(loops) : l.status = status /\ l.isHandsFree = isHandsFree

\* C35: when every pending call, recorder stop and playback settles, the
\* orchestrator does not stay in processing or speaking for ever: from
\* either status it reaches idle or listening.
C35_TurnsTerminate ==
  (status \in {"processing", "speaking"}) ~> (status \in {"idle", "listening"})

\* C39: with no API key configured, no step starts listening (no
\* handleStartListening call goes on to the microphone, the status, the
\* recorders, the VAD state and the lock stay as they are when the user
\* asks to listen), and a provider call made with an empty key returns
\* nothing.
C39_NoKeyOnlyAlerts ==
  /\ [][~voiceApiKey =>
          /\ PendingStarts' <= PendingStarts
          /\ ClickStart => UNCHANGED voiceVars]_vars
  /\ [](\A t \in turns : ~t.key => t.transcript = "none" /\ t.reply = "none")

---------------------------------------------------------------------------
(***************************************************************************)
(* Properties of the speech text (StripSpec).                              *)
(***************************************************************************)

\* C7: the text handed to generateSpeech contains no thought markup,
\* neither an opening nor a closing tag.
C7_NoThoughtMarkupSpoken ==
  stripPc = "synthesizing" =>
    \A i \in DOMAIN speechText : speechText[i] \notin {"O", "C"}

---------------------------------------------------------------------------
(***************************************************************************)
(* Properties of the PCM conversion (PcmSpec).                             *)
(***************************************************************************)

\* the distance between the decoded sample and the clamped input, in
\* units of 1/(32768 * Resolution)
Abs(n) == IF n < 0 THEN -n ELSE n

QuantError == Abs(Clamp(sample).num * 32768 - float32.num * Resolution)

\* one quantization step, 1/32768, in the same units
QuantStep == Resolution

InInt16 == -32768 <= pcm16 /\ pcm16 <= 32767

\* C8 as stated: the encoded integer lies in [-32768, 32767] and the
\* decoded value is within one quantization step of the clamped input.
C8_WithinOneStep ==
  pcmPc = "decoded" => InInt16 /\ QuantError <= QuantStep

\* C8 as the conversion has it: the encoded integer lies in the 16-bit
\* range; the decoded value is less than two steps from the clamped input,
\* and within one step for every input that is not positive; 1.0 and -1.0
\* decode within one step and 0.0 decodes to exactly 0.0.
C8_WithinTwoSteps ==
  pcmPc = "decoded" =>
    /\ InInt16
    /\ QuantError < 2 * QuantStep
    /\ sample.num <= 0 => QuantError <= QuantStep
    /\ Abs(sample.num) = Resolution => QuantError <= QuantStep
    /\ sample.num = 0 => float32.num = 0

\* C8 (case reached): a positive sample inside [0, 1] has been encoded and
\* decoded, and the decoded value is more than one step away from it.
C8_Witness ==
  /\ pcmPc = "decoded"
  /\ sample.num > 0
  /\ sample.num < Resolution
  /\ QuantError > QuantStep

---------------------------------------------------------------------------
(***************************************************************************)
(* Properties of the live session (LiveSpec).                              *)
(***************************************************************************)

\* C5: within one connection, a buffer is scheduled to start no earlier
\* than the end of the buffer before it, and exactly at that end when it
\* arrives while the playback clock is not past nextStartTimeRef.
C5_GaplessPlayback ==
  \A k \in Calls :
    sched[k].n >= 2 =>
      /\ sched[k].start >= sched[k].prevEnd
      /\ sched[k].onTime => sched[k].start = sched[k].prevEnd

\* C10: in every reachable state, disconnect() run twice leaves what
\* disconnect() run once leaves: every resource ref null, the playback set
\* empty, not connected, not talking; and no object has been released a
\* second time.
C10_DisconnectIdempotent ==
  LET once == AfterDisconnect(LiveState)
  IN /\ AfterDisconnect(once) = once
     /\ once.streamRef = 0 /\ once.processorRef = 0 /\ once.sourceRef = 0
     /\ once.inputContextRef = 0 /\ once.sessionRef = 0
     /\ once.sourcesRef = {}
     /\ ~once.isConnected /\ ~once.isTalking
     /\ \A x \in Kinds \X Calls : resources[x] # "twice"

\* C10 (case reached): disconnect() has run twice in a row, and had
\* released a microphone stream and asked a channel to close.
C10_Witness ==
  /\ disconnectsInRow = 2
  /\ \E k \in Calls : /\ resources[<<"stream", k>>] = "released"
                      /\ resources[<<"session", k>>] = "released"

\* every connect() call has run to its end and every channel it opened
\* has closed or failed
ConnectsSettled ==
  /\ \A k \in Calls : calls[k] # "gum"
  /\ \A k \in Calls : sessions[k].state \notin {"connecting", "open"}

\* disconnect() has run since the last connect() stored anything
AllRefsNull ==
  /\ inputContextRef = 0 /\ streamRef = 0 /\ sourceRef = 0
  /\ processorRef = 0 /\ sessionRef = 0

\* C11: once disconnect() has run after the connect() calls started and
\* their remaining steps have run, no input context, microphone stream,
\* source node, processing node or channel made by them is still held.
C11_NothingHeldAfterDisconnect ==
  (ConnectsSettled /\ AllRefsNull) =>
    \A x \in Kinds \X Calls : resources[x] # "open"

\* a step that schedules a buffer gives it a start that is not before the
\* playback clock, and leaves nextStartTimeRef at its end
ScheduledFromNow ==
  \A k \in Calls, d \in Durations :
    OnMessage(k, d) => /\ sched'[k].start >= currentTime
                       /\ nextStartTimeRef' = sched'[k].start + d

\* C20 as stated: nextStartTimeRef never decreases, across buffers and
\* across reconnects, and every buffer is scheduled to start no earlier
\* than the playback clock's current time.
C20_NeverDecreases ==
  [][nextStartTimeRef' >= nextStartTimeRef /\ ScheduledFromNow]_vars

\* C20 as the code has it: nextStartTimeRef decreases only in onopen,
\* which sets it to 0; every other step leaves it or raises it, and every
\* buffer is scheduled to start no earlier than the playback clock's
\* current time.
C20_DecreasesOnlyOnOpen ==
  [][/\ nextStartTimeRef' < nextStartTimeRef =>
          (nextStartTimeRef' = 0 /\ \E k \in Calls : OnOpen(k))
     /\ ScheduledFromNow]_vars

\* C20 (case reached): a first connection scheduled a buffer, was
\* disconnected and closed; a second one was made after that, opened, and
\* scheduled a buffer that starts before the end of the first
\* connection's.
C20_Witness ==
  /\ sessions[1].state = "closed"
  /\ resources[<<"context", 1>>] = "released"
  /\ sched[1].n = 1
  /\ sched[2].n = 1
  /\ sched[2].start < sched[1].end
  /\ nextStartTimeRef = sched[2].end

\* C21: the talking flag is true whenever the set of playback sources is
\* not empty.
C21_TalkingWhilePlaying ==
  sourcesRef # {} => isTalking

\* nothing has been acquired: no object was made, no ref is set, no
\* connect() call went past the key test, the session is not connected
NothingAcquired ==
  /\ \A x \in Kinds \X Calls : resources[x] = "none"
  /\ AllRefsNull
  /\ \A k \in Calls : calls[k] = "none" /\ sessions[k] = NoSession
  /\ ~isConnected

\* C22: with no API key configured, connect() records the error and
\* returns; no input context, microphone stream or channel is ever made
\* and the session stays disconnected.
C22_NoKeyFailsFast ==
  /\ [](~hasApiKey => NothingAcquired)
  /\ [][(~hasApiKey /\ \E k \in Calls : Connect(k)) =>
          error' = "Gemini API Key missing"]_vars

\* C22 (case reached): GO LIVE was pressed with no key configured.
C22_Witness ==
  /\ ~hasApiKey
  /\ error = "Gemini API Key missing"
  /\ NothingAcquired

\* C23: no microphone frame is captured for sending before the channel
\* of its connection has reported open.
C23_NoFrameBeforeOpen ==
  \A k \in Calls : sessions[k].state = "connecting" => sessions[k].pending = 0

\* C24: an open event or an audio message of a channel that disconnect()
\* has torn down changes neither the connected flag nor the talking flag
\* nor the set of playback sources.
C24_LateEventsDiscarded ==
  [][\A k \in Calls :
       (/\ sessions[k].closeAsked
        /\ (OnOpen(k) \/ \E d \in Durations : OnMessage(k, d))) =>
         UNCHANGED <<isConnected, isTalking, sourcesRef>>]_vars

\* C25: when the session is shown as not connected after a channel of it
\* has closed, and no connect() is under way, nothing is held: every ref
\* is null, every object made is released and the playback set is empty.
C25_DisconnectedMeansTornDown ==
  (/\ ~isConnected
   /\ ConnectsSettled
   /\ \E k \in Calls : sessions[k].state = "closed") =>
    /\ AllRefsNull
    /\ sourcesRef = {}
    /\ \A x \in Kinds \X Calls : resources[x] # "open"

\* the objects of a kind that were made and not released
StillOpen(kind) == {k \in Calls : resources[<<kind, k>>] = "open"}

\* C37: at most one session exists at a time: whatever the sequence of
\* connect() calls, at most one microphone stream, one processing node and
\* one channel are open, and each of them is the one its ref holds, which
\* the next disconnect() releases.
C37_OneSession ==
  /\ StillOpen("stream") \subseteq {streamRef}
  /\ StillOpen("processor") \subseteq {processorRef}
  /\ StillOpen("session") \subseteq {sessionRef}

\* a step that sends a microphone frame on the channel of call k: the
\* channel opens with sends pending on the session promise (lines 375-382),
\* or a frame is captured while the channel is open
FrameSent(k) ==
  \/ sessions[k].pending > 0 /\ OnOpen(k)
  \/ sessions[k].state = "open" /\ OnAudioProcess(k)

\* C38: once disconnect() has run on a session, no microphone frame is sent
\* on its channel any more, the frames captured before and still pending on
\* the session promise included.
C38_NoFrameAfterDisconnect ==
  [][\A k \in Calls : sessions[k].closeAsked => ~FrameSent(k)]_vars


---------------------------------------------------------------------------
(***************************************************************************)
(* Properties of the text chat (ChatSpec).                                 *)
(***************************************************************************)

\* C27: the placeholder assistant entry of a submission has its in-progress
\* flag cleared when the stream completes or fails, whatever was appended
\* meanwhile: once handleSubmit has finished, no entry of the list is still
\* marked in progress.
C27_NoTurnLeftInProgress ==
  stream.pc = "none" =>
    \A i \in 1..Len(chatMessages) : chatMessages[i].isStreaming # "true"


---------------------------------------------------------------------------
(***************************************************************************)
(* Properties of the reasoning rewrite (RewriteSpec).                      *)
(***************************************************************************)

\* the places of a trigger phrase in a transcript: /think anywhere, slash
\* think at the start
TriggerPlaces(s) ==
  {i \in 1..Len(s) : s[i] = "S" \/ (i = 1 /\ s[i] = "K")}

\* s without the tokens at the places in P
Without(s, P) ==
  LET keep == {i \in 1..Len(s) : i \notin P}
      F[n \in 0..Len(s)] ==
        IF n = 0 THEN <<>>
        ELSE IF n \in keep THEN Append(F[n-1], s[n]) ELSE F[n-1]
  IN F[Len(s)]

\* the texts that are the transcript with trigger phrases removed (one, some
\* or all of them) and trimmed, the default prompt standing in for nothing
TriggerRemoved(s) ==
  {IF Trim(Without(s, P)) = <<>> THEN <<"D">> ELSE Trim(Without(s, P)) :
     P \in (SUBSET TriggerPlaces(s)) \ {{}}}

\* C33: for a model with a reasoning mode and a transcript with a trigger
\* phrase, the user text sent is the transcript with the trigger phrase
\* removed and trimmed, or the default prompt if nothing remains, and the
\* reasoning flag is set; otherwise the text is sent unchanged and the flag
\* is unset.
C33_ReasoningRewrite ==
  rewritePc = "requested" =>
    IF model = "qwen" /\ TriggerPlaces(turnTranscript) # {}
    THEN isReasoning /\ cleanContent \in TriggerRemoved(turnTranscript)
    ELSE ~isReasoning /\ cleanContent = turnTranscript

=============================================================================
